---------------------------- MODULE Spec2Model ----------------------------
(***************************************************************************)
(* A model of the CV analysis engine of CHI-CVAnalysis (cv_analysis.py):   *)
(* the CVAnalyzer object, its read_file / analyze operations and the pure  *)
(* functions they call.                                                    *)
(*                                                                         *)
(* Numbers.  The program computes on floats; the model computes on exact   *)
(* integers and fractions of fixed units:                                  *)
(*   voltage        1/3 microvolt, so that round(v, 6) is a real rounding  *)
(*                  (3k-1, 3k and 3k+1 all round to 3k) and never a tie;   *)
(*   current        half of the current grid: every current is an even     *)
(*                  number, so the "/ 2" of the trapezoid rule is exact;   *)
(*   sensitivity    the same unit as current (per volt);                   *)
(*   scan_rate      0.01 V/s, so the default 0.01 of the code is 1;        *)
(*   area           current unit * voltage unit;                           *)
(*   capacitance    a fraction <<n, d>> in lowest terms with d > 0.        *)
(* Floating-point rounding error of the arithmetic itself is not modelled. *)
(***************************************************************************)
EXTENDS Integers, Sequences, FiniteSets, TLC

VARIABLES
    sensitivity_threshold_factor, \* CVAnalyzer.sensitivity_threshold_factor
    outlier_count,                \* CVAnalyzer.outlier_count
    file_path,                    \* CVAnalyzer.file_path
    metadata,                     \* CVAnalyzer.metadata (a dict: a function on the keys present)
    voltage_current_data,         \* CVAnalyzer.voltage_current_data
    is_cv,                        \* CVAnalyzer.is_cv
    last_call,                    \* the most recent call made on the analyzer
    last_file,                    \* the file given to the most recent read_file
    ret,                          \* what the most recent call returned (or raised)
    read_ret,                     \* what the most recent read_file returned
    reads,                        \* number of read_file calls made so far
    cycles,                       \* the cycles of the most recent _split_into_cycles
    cycle_results,                \* analyze(): its local cycle_results
    capacitances,                 \* analyze(): its local capacitances
    avg_capacitance,              \* analyze(): its local avg_capacitance
    cycle_data,                   \* the cycle given to _calculate_cycle_capacitance
    result,                       \* what _calculate_cycle_capacitance returned
    exit_status,                  \* the exit status of the process that ran main()
    report,                       \* analyze(): the final results it printed
    window,                       \* the CVAnalysisGUI: its attributes and its figure
    exported,                     \* the plot file written last by the window
    DEFAULT_CONFIG,               \* config_manager.DEFAULT_CONFIG: key -> object
    config,                       \* ConfigManager.config: key -> object
    heap,                         \* the dict objects DEFAULT_CONFIG and config refer to
    disk                          \* the content of the configuration files

vars == <<sensitivity_threshold_factor, outlier_count, file_path, metadata,
          voltage_current_data, is_cv, last_call, last_file, ret, read_ret, reads, cycles,
          cycle_results, capacitances, avg_capacitance, cycle_data, result,
          exit_status, report, window, exported, DEFAULT_CONFIG, config, heap, disk>>

window_vars == <<window, exported>>

config_vars == <<DEFAULT_CONFIG, config, heap, disk>>

analyzer_vars == <<sensitivity_threshold_factor, outlier_count, file_path, metadata,
                   voltage_current_data, is_cv>>

-----------------------------------------------------------------------------
(* Bounds of the model. *)

\* longest sample sequence given to _split_into_cycles
MaxLen == 8

\* longest cycle given to _calculate_cycle_capacitance
MaxCycleLen == 3

\* longest ideal loop given to _calculate_cycle_capacitance
MaxLoopLen == 6

\* most read_file calls made on one analyzer
MaxReads == 3

\* longest list given to _calculate_robust_average
MaxValues == 4

\* longest data block of the files given to read_file on a fresh analyzer
MaxLines == 3

-----------------------------------------------------------------------------
(* Program constants. *)

\* metadata.get('segment', 10)
DefaultSegment == 10

\* metadata.get('sensitivity', 1e-5), in current units
DefaultSensitivity == 2

\* metadata.get('scan_rate', 0.01), in units of 0.01 V/s
DefaultScanRate == 1

\* CVAnalyzer(sensitivity_threshold_factor=10, ...)
DefaultFactor == 10

\* CVAnalyzer(..., outlier_count=1)
DefaultOutlierCount == 1

\* Python's None
None == "None"

-----------------------------------------------------------------------------
(* Helpers: Python built-ins used by the code. *)

Abs(x) == IF x < 0 THEN -x ELSE x

\* dict.get(key, default)
Get(d, key, default) == IF key \in DOMAIN d THEN d[key] ELSE default

\* list[start:end] with 0 <= start <= end <= len(list)
Slice(s, start, end) == SubSeq(s, start + 1, end)

\* max(...) and min(...) of a non-empty set of integers
Max(S) == CHOOSE x \in S : \A y \in S : y <= x
Min(S) == CHOOSE x \in S : \A y \in S : x <= y

\* all sequences over S of a length in lo..hi
SeqsOf(S, lo, hi) == UNION {[1..n -> S] : n \in lo..hi}

\* round(v, 6): the nearest multiple of one microvolt (3 voltage units)
Round6(v) == 3 * ((v + 1) \div 3)

-----------------------------------------------------------------------------
(* _split_into_cycles *)

\* lines 255-266: the per-sample direction labels, as a sequence (index 0 of
\* the code is index 1 here)
direction_changes(data) ==
    LET RECURSIVE dir(_)
        dir(j) == IF j = 1 THEN 0
                  ELSE IF data[j][1] > data[j-1][1] THEN 1
                  ELSE IF data[j][1] < data[j-1][1] THEN -1
                  ELSE dir(j - 1)
    IN  [j \in 1..Len(data) |-> dir(j)]

\* lines 269-272: the 0-based indices where the direction changes, after the
\* leading 0, in increasing order
direction_change_indices(data) ==
    LET dc == direction_changes(data)
        RECURSIVE scan(_)
        \* i is the 0-based index of the code
        scan(i) == IF i >= Len(dc) THEN <<>>
                   ELSE IF dc[i+1] # dc[i] /\ dc[i+1] # 0 /\ dc[i] # 0
                        THEN <<i>> \o scan(i + 1)
                        ELSE scan(i + 1)
    IN  <<0>> \o scan(1)

\* cycle_boundaries without the cap "len(cycle_boundaries) < segment"
cycle_boundaries_uncapped(data, segment) ==
    LET dci == direction_change_indices(data)
    IN  Append(dci, Len(data))

\* lines 275-279: the boundaries, capped at segment, closed by len(data)
cycle_boundaries(data, segment) ==
    LET dci == direction_change_indices(data)
        RECURSIVE collect(_, _)
        collect(cb, k) == IF k > Len(dci) THEN cb
                          ELSE IF Len(cb) < segment
                               THEN collect(Append(cb, dci[k]), k + 1)
                               ELSE collect(cb, k + 1)
    IN  Append(collect(<<0>>, 2), Len(data))

\* slices keeping a slice of 1 sample: "len(cycle_data) >= 1" at line 287
slices_from_one_sample(data, segment) ==
    LET cb == cycle_boundaries(data, segment)
        RECURSIVE from(_)
        from(i) == IF i >= Len(cb) THEN <<>>
                   ELSE LET c == Slice(data, cb[i], cb[i+1])
                        IN  IF Len(c) >= 1 THEN <<c>> \o from(i + 1)
                                           ELSE from(i + 1)
    IN  from(1)

\* slices including the sample at the end boundary: "[start_idx:end_idx + 1]"
\* at line 286
slices_through_end_boundary(data, segment) ==
    LET cb == cycle_boundaries(data, segment)
        RECURSIVE from(_)
        from(i) == IF i >= Len(cb) THEN <<>>
                   ELSE LET c == Slice(data, cb[i], Min({cb[i+1] + 1, Len(data)}))
                        IN  IF Len(c) >= 2 THEN <<c>> \o from(i + 1)
                                           ELSE from(i + 1)
    IN  from(1)

\* lines 282-288: the slices between consecutive boundaries of 2 samples or more
slices(data, segment) ==
    LET cb == cycle_boundaries(data, segment)
        RECURSIVE from(_)
        from(i) == IF i >= Len(cb) THEN <<>>
                   ELSE LET c == Slice(data, cb[i], cb[i+1])
                        IN  IF Len(c) >= 2 THEN <<c>> \o from(i + 1)
                                           ELSE from(i + 1)
    IN  from(1)

\* paired_cycles stepping by 1 instead of 2: range(0, len(cycles) - 1)
paired_cycles_step1(cs) ==
    [i \in 1..(Len(cs) - 1) |-> cs[i] \o cs[i+1]]

\* paired_cycles keeping a trailing slice that has no partner
paired_cycles_with_trailing(cs) ==
    LET RECURSIVE pair(_)
        pair(i) == IF i >= Len(cs) THEN <<>>
                   ELSE IF i = Len(cs) - 1 THEN <<cs[i+1]>>
                   ELSE <<cs[i+1] \o cs[i+2]>> \o pair(i + 2)
    IN  pair(0)

\* lines 293-300: adjacent slices joined two by two
paired_cycles(cs) ==
    LET RECURSIVE pair(_)
        \* i is the 0-based index of the code: range(0, len(cycles) - 1, 2)
        pair(i) == IF i >= Len(cs) - 1 THEN <<>>
                   ELSE LET combined == cs[i+1] \o cs[i+2]
                        IN  IF Len(combined) > 1 THEN <<combined>> \o pair(i + 2)
                                                 ELSE pair(i + 2)
    IN  pair(0)

\* split_into_cycles without the fallback "if paired_cycles:" of line 302
split_into_cycles_no_fallback(data, meta) ==
    IF Len(data) < 2 THEN <<>>
    ELSE LET segment == Get(meta, "segment", DefaultSegment)
             expected_cycles == segment \div 2
             cs == slices(data, segment)
         IN  IF Len(cs) > expected_cycles THEN paired_cycles(cs) ELSE cs

\* lines 243-305
split_into_cycles(data, meta) ==
    IF Len(data) < 2 THEN <<>>
    ELSE LET segment == Get(meta, "segment", DefaultSegment)
             expected_cycles == segment \div 2
             cs == slices(data, segment)
         IN  IF Len(cs) > expected_cycles /\ paired_cycles(cs) # <<>>
             THEN paired_cycles(cs)
             ELSE cs

-----------------------------------------------------------------------------
(* Fractions: the exact values of the program's real-valued quotients. *)

RECURSIVE GCD(_, _)
GCD(a, b) == IF b = 0 THEN a ELSE GCD(b, a % b)

\* n / d for d # 0, in lowest terms with a positive denominator
Frac(n, d) ==
    LET g == GCD(Abs(n), Abs(d))
        sgn == IF d < 0 THEN -1 ELSE 1
    IN  <<(sgn * n) \div g, Abs(d) \div g>>

FracZero == Frac(0, 1)
FracAdd(x, y) == Frac(x[1] * y[2] + y[1] * x[2], x[2] * y[2])
FracSub(x, y) == Frac(x[1] * y[2] - y[1] * x[2], x[2] * y[2])
FracAbs(x) == <<Abs(x[1]), x[2]>>
FracLess(x, y) == x[1] * y[2] < y[1] * x[2]
FracPositive(x) == x[1] > 0
FracMul(x, y) == Frac(x[1] * y[1], x[2] * y[2])
\* x / y for y # 0
FracDiv(x, y) == Frac(x[1] * y[2], x[2] * y[1])

-----------------------------------------------------------------------------
(* _calculate_cycle_capacitance and the functions it calls *)

\* what _calculate_cycle_capacitance returns: a dict, None, or an exception raised
ResultDict(num, area, cap, outlier, reason, warning) ==
    [kind |-> "dict", cycle_num |-> num, area |-> area, capacitance |-> cap,
     is_outlier |-> outlier, outlier_reason |-> reason, warning |-> warning]

ResultNone ==
    [kind |-> "None", cycle_num |-> 0, area |-> 0, capacitance |-> FracZero,
     is_outlier |-> FALSE, outlier_reason |-> None, warning |-> None]

\* area / (2*scan_rate*voltage_range) with a zero divisor
ResultZeroDivisionError ==
    [kind |-> "ZeroDivisionError", cycle_num |-> 0, area |-> 0, capacitance |-> FracZero,
     is_outlier |-> FALSE, outlier_reason |-> None, warning |-> None]

\* has_overflow with "c >= threshold"
has_overflow_ge(cycle, threshold) ==
    \E j \in 1..Len(cycle) : Abs(cycle[j][2]) >= threshold

\* lines 325-326
has_overflow(cycle, threshold) ==
    \E j \in 1..Len(cycle) : Abs(cycle[j][2]) > threshold

\* max_idx with "v >= max_voltage" at line 383: the last sample of maximum voltage
max_idx_last(cycle) ==
    LET RECURSIVE scan(_, _, _)
        scan(j, best, best_v) ==
            IF j > Len(cycle) THEN best
            ELSE IF cycle[j][1] >= best_v THEN scan(j + 1, j - 1, cycle[j][1])
            ELSE scan(j + 1, best, best_v)
    IN  scan(1, 0, cycle[1][1])

\* lines 379-385: the 0-based index of the first sample of maximum voltage
max_idx(cycle) ==
    LET RECURSIVE scan(_, _, _)
        scan(j, best, best_v) ==
            IF j > Len(cycle) THEN best
            ELSE IF cycle[j][1] > best_v THEN scan(j + 1, j - 1, cycle[j][1])
            ELSE scan(j + 1, best, best_v)
    IN  scan(1, 0, cycle[1][1])

\* lines 375-392: <<forward, reverse>>
split_forward_reverse(cycle) ==
    IF Len(cycle) < 2 THEN <<<<>>, <<>>>>
    ELSE LET m == max_idx(cycle)
         IN  <<Slice(cycle, 0, m + 1), Slice(cycle, m, Len(cycle))>>

\* reverse_dict keeping the first current of a rounded voltage, not the last
reverse_dict_first(reverse_scan) ==
    [k \in {Round6(reverse_scan[j][1]) : j \in 1..Len(reverse_scan)} |->
        LET first == Min({j \in 1..Len(reverse_scan) : Round6(reverse_scan[j][1]) = k})
        IN  reverse_scan[first][2]]

\* line 410: {round(v, 6): i for v, i in reverse_scan}; a later sample of the
\* same rounded voltage replaces an earlier one
reverse_dict(reverse_scan) ==
    [k \in {Round6(reverse_scan[j][1]) : j \in 1..Len(reverse_scan)} |->
        LET last == Max({j \in 1..Len(reverse_scan) : Round6(reverse_scan[j][1]) = k})
        IN  reverse_scan[last][2]]

\* calculate_area without the abs() of line 431
calculate_area_signed(forward_scan, reverse_scan) ==
    LET rd == reverse_dict(reverse_scan)
        RECURSIVE loop(_, _)
        loop(j, area) ==
            IF j > Len(forward_scan) - 1 THEN area
            ELSE LET v1 == forward_scan[j][1]
                     i1 == forward_scan[j][2]
                     v2 == forward_scan[j+1][1]
                     i2 == forward_scan[j+1][2]
                     v1_rounded == Round6(v1)
                     v2_rounded == Round6(v2)
                 IN  IF v1_rounded \in DOMAIN rd /\ v2_rounded \in DOMAIN rd
                     THEN LET dV == Abs(v2 - v1)
                              delta_i_avg == ((i1 - rd[v1_rounded]) + (i2 - rd[v2_rounded])) \div 2
                          IN  loop(j + 1, area + delta_i_avg * dV)
                     ELSE loop(j + 1, area)
    IN  loop(1, 0)

\* lines 407-431
calculate_area(forward_scan, reverse_scan) ==
    LET rd == reverse_dict(reverse_scan)
        RECURSIVE loop(_, _)
        loop(j, area) ==
            IF j > Len(forward_scan) - 1 THEN area
            ELSE LET v1 == forward_scan[j][1]
                     i1 == forward_scan[j][2]
                     v2 == forward_scan[j+1][1]
                     i2 == forward_scan[j+1][2]
                     v1_rounded == Round6(v1)
                     v2_rounded == Round6(v2)
                 IN  IF v1_rounded \in DOMAIN rd /\ v2_rounded \in DOMAIN rd
                     THEN LET dV == Abs(v2 - v1)
                              delta_i_avg == ((i1 - rd[v1_rounded]) + (i2 - rd[v2_rounded])) \div 2
                          IN  loop(j + 1, area + delta_i_avg * dV)
                     ELSE loop(j + 1, area)
    IN  Abs(loop(1, 0))

\* calculate_cycle_capacitance dividing by scan_rate * voltage_range, as the
\* comment of line 348 has it, instead of 2 * scan_rate * voltage_range
calculate_cycle_capacitance_undoubled(cycle_num, cycle, meta, factor) ==
    IF Len(cycle) < 2 THEN ResultNone
    ELSE
    LET sensitivity == Get(meta, "sensitivity", DefaultSensitivity)
        threshold == sensitivity * factor
    IN  IF has_overflow(cycle, threshold)
        THEN ResultDict(cycle_num, 0, FracZero, TRUE, "current overflow",
                        "current exceeds the sensitivity range, cycle ignored")
        ELSE
        LET forward_scan == split_forward_reverse(cycle)[1]
            reverse_scan == split_forward_reverse(cycle)[2]
        IN  IF forward_scan = <<>> \/ reverse_scan = <<>> THEN ResultNone
            ELSE
            LET area == calculate_area(forward_scan, reverse_scan)
                scan_rate == Get(meta, "scan_rate", DefaultScanRate)
            IN  IF scan_rate = 0 THEN ResultNone
                ELSE
                LET voltages == {forward_scan[j][1] : j \in 1..Len(forward_scan)}
                    voltage_range == Max(voltages) - Min(voltages)
                IN  IF scan_rate * voltage_range = 0
                    THEN ResultZeroDivisionError
                    ELSE ResultDict(cycle_num, area,
                                    Frac(area, scan_rate * voltage_range),
                                    FALSE, None, None)

\* lines 318-366
calculate_cycle_capacitance(cycle_num, cycle, meta, factor) ==
    IF Len(cycle) < 2 THEN ResultNone
    ELSE
    LET sensitivity == Get(meta, "sensitivity", DefaultSensitivity)
        threshold == sensitivity * factor
    IN  IF has_overflow(cycle, threshold)
        THEN ResultDict(cycle_num, 0, FracZero, TRUE, "current overflow",
                        "current exceeds the sensitivity range, cycle ignored")
        ELSE
        LET forward_scan == split_forward_reverse(cycle)[1]
            reverse_scan == split_forward_reverse(cycle)[2]
        IN  IF forward_scan = <<>> \/ reverse_scan = <<>> THEN ResultNone
            ELSE
            LET area == calculate_area(forward_scan, reverse_scan)
                scan_rate == Get(meta, "scan_rate", DefaultScanRate)
            IN  IF scan_rate = 0 THEN ResultNone
                ELSE
                LET voltages == {forward_scan[j][1] : j \in 1..Len(forward_scan)}
                    voltage_range == Max(voltages) - Min(voltages)
                IN  IF 2 * scan_rate * voltage_range = 0
                    THEN ResultZeroDivisionError
                    ELSE ResultDict(cycle_num, area,
                                    Frac(area, 2 * scan_rate * voltage_range),
                                    FALSE, None, None)

-----------------------------------------------------------------------------
(* _calculate_robust_average and _get_valid_capacitances *)

\* Mean leaving the last value out of the sum
Mean_without_last(values) ==
    LET RECURSIVE sum(_)
        sum(j) == IF j = 0 THEN FracZero ELSE FracAdd(sum(j - 1), values[j])
        total == sum(Len(values) - 1)
    IN  Frac(total[1], total[2] * Len(values))

\* Mean with the floor division "//" for "/"
Mean_floor_division(values) ==
    LET RECURSIVE sum(_)
        sum(j) == IF j = 0 THEN FracZero ELSE FracAdd(sum(j - 1), values[j])
        total == sum(Len(values))
    IN  <<total[1] \div (total[2] * Len(values)), 1>>

\* statistics.mean of a non-empty sequence of fractions
Mean(values) ==
    LET RECURSIVE sum(_)
        sum(j) == IF j = 0 THEN FracZero ELSE FracAdd(sum(j - 1), values[j])
        total == sum(Len(values))
    IN  Frac(total[1], total[2] * Len(values))

\* statistics.stdev(values) == 0: the sample variance is a sum of squares,
\* zero exactly when all values are equal
StdevIsZero(values) == \A j \in 1..Len(values) : values[j] = values[1]

\* sorted_by_z_score without reverse=True: smallest z-score first
sorted_by_z_score_ascending(values) ==
    LET mean == Mean(values)
        z(j) == FracAbs(FracSub(values[j], mean))
        before(a, b) == FracLess(z(a), z(b)) \/ (z(a) = z(b) /\ a < b)
        rank(j) == Cardinality({a \in 1..Len(values) : before(a, j)})
    IN  [r \in 1..Len(values) |->
            values[CHOOSE j \in 1..Len(values) : rank(j) = r - 1]]

\* lines 454-455: the values sorted by z-score, largest first, equal z-scores
\* in their original order (list.sort is stable).  The z-scores |v - mean| / stdev
\* are ordered as the distances |v - mean| are.
sorted_by_z_score(values) ==
    LET mean == Mean(values)
        z(j) == FracAbs(FracSub(values[j], mean))
        before(a, b) == FracLess(z(b), z(a)) \/ (z(a) = z(b) /\ a < b)
        rank(j) == Cardinality({a \in 1..Len(values) : before(a, j)})
    IN  [r \in 1..Len(values) |->
            values[CHOOSE j \in 1..Len(values) : rank(j) = r - 1]]

\* lines 443-460
calculate_robust_average(values, count) ==
    IF Len(values) <= count THEN Mean(values)
    ELSE IF StdevIsZero(values) THEN Mean(values)
    ELSE LET remaining == Slice(sorted_by_z_score(values), count, Len(values))
         IN  IF remaining # <<>> THEN Mean(remaining) ELSE Mean(values)

\* lines 472-476
get_valid_capacitances(results) ==
    LET RECURSIVE loop(_)
        loop(j) == IF j > Len(results) THEN <<>>
                   ELSE IF ~results[j].is_outlier /\ FracPositive(results[j].capacitance)
                        THEN <<results[j].capacitance>> \o loop(j + 1)
                        ELSE loop(j + 1)
    IN  loop(1)

-----------------------------------------------------------------------------
(* read_file and analyze *)

\* A line of the data block is the sequence of its comma-separated fields,
\* each stripped of blanks; a field is a number float() accepts, or any other
\* text.  A blank line is the line without field.
Num(n) == <<"num", n>>
Str == <<"str">>

\* lines 133-136: exactly two fields, and float() accepts both
is_sample(line) == Len(line) = 2 /\ line[1][1] = "num" /\ line[2][1] = "num"

\* valid_rows with "break" for "pass" at line 140: a line of two fields with a
\* field that is no number ends the parsing
valid_rows_until_invalid(lines) ==
    LET RECURSIVE loop(_)
        loop(j) == IF j > Len(lines) THEN <<>>
                   ELSE IF lines[j] = <<>> THEN loop(j + 1)
                   ELSE IF is_sample(lines[j])
                        THEN <<<<lines[j][1][2], lines[j][2][2]>>>> \o loop(j + 1)
                        ELSE IF Len(lines[j]) = 2 THEN <<>>
                        ELSE loop(j + 1)
    IN  loop(1)

\* lines 126-140: the samples of the data lines; a line that is blank, has not
\* exactly two fields or has an unparseable field is skipped
valid_rows(lines) ==
    LET RECURSIVE loop(_)
        loop(j) == IF j > Len(lines) THEN <<>>
                   ELSE IF lines[j] = <<>> THEN loop(j + 1)
                   ELSE IF is_sample(lines[j])
                        THEN <<<<lines[j][1][2], lines[j][2][2]>>>> \o loop(j + 1)
                        ELSE loop(j + 1)
    IN  loop(1)

\* lines 111-140: the sample sequence after parsing a file's text: the rows
\* after the header line are appended to the list the analyzer holds
parse_voltage_current_data(data, file) ==
    IF ~file.header THEN data ELSE data \o valid_rows(file.lines)

\* lines 64-109: the metadata after parsing a file's text: each key found in
\* the file is assigned, the other keys of the dict are left as they are
\* (file.meta holds the values assigned before a ValueError, if one is raised)
parse_metadata(meta, file) ==
    [k \in DOMAIN meta \cup DOMAIN file.meta |->
        IF k \in DOMAIN file.meta THEN file.meta[k] ELSE meta[k]]

\* lines 25-62: <<return value or exception raised, file_path, is_cv, metadata,
\* voltage_current_data>>.  float() of a matched metadata value that is no
\* number (lines 73-109) raises ValueError, which read_file does not catch.
read_file(file, path, cv, meta, data) ==
    IF ~file.readable THEN <<"False", path, cv, meta, data>>
    ELSE IF ~file.marker THEN <<"False", file.path, cv, meta, data>>
    ELSE IF file.meta_error
    THEN <<"ValueError", file.path, TRUE, parse_metadata(meta, file), data>>
    ELSE LET new_meta == parse_metadata(meta, file)
             new_data == parse_voltage_current_data(data, file)
         IN  <<IF new_data = <<>> THEN "False" ELSE "True",
               file.path, TRUE, new_meta, new_data>>

\* lines 175-179: the results of the cycles, in order; a cycle without result
\* is left out, and an exception raised for a cycle ends the loop
results_of(cs, meta, factor) ==
    LET RECURSIVE loop(_)
        loop(k) ==
            IF k > Len(cs) THEN [raised |-> FALSE, results |-> <<>>]
            ELSE LET r == calculate_cycle_capacitance(k, cs[k], meta, factor)
                 IN  IF r.kind = "ZeroDivisionError"
                     THEN [raised |-> TRUE, results |-> <<>>]
                     ELSE LET rest == loop(k + 1)
                          IN  [raised |-> rest.raised,
                               results |-> IF r.kind = "None" THEN rest.results
                                           ELSE <<r>> \o rest.results]
    IN  loop(1)

\* min(values) and max(values) of a non-empty sequence of fractions
MinOf(values) ==
    values[CHOOSE j \in 1..Len(values) :
              \A k \in 1..Len(values) : ~FracLess(values[k], values[j])]
MaxOf(values) ==
    values[CHOOSE j \in 1..Len(values) :
              \A k \in 1..Len(values) : ~FracLess(values[j], values[k])]

\* statistics.stdev(values) squared, for 2 values or more: the sum of the
\* squares of the distances to the mean, divided by len(values) - 1
Variance(values) ==
    LET RECURSIVE sum(_, _)
        sum(j, mean) ==
            IF j = 0 THEN FracZero
            ELSE FracAdd(sum(j - 1, mean), FracMul(FracSub(values[j], mean),
                                                   FracSub(values[j], mean)))
        over(total) == Frac(total[1], total[2] * (Len(values) - 1))
    IN  over(sum(Len(values), Mean(values)))

\* nothing printed under the final results
NoReport == [kind |-> "none", count |-> 0, avg |-> FracZero, min |-> FracZero,
             max |-> FracZero, variance |-> FracZero, cv_squared |-> FracZero]

\* lines 199-212: the figures printed under the final results, for an
\* average # 0: the standard deviation and the coefficient of variation
\* std_dev / avg_capacitance are held by their squares
final_report(capacitances_, avg) ==
    IF Len(capacitances_) > 1
    THEN [kind |-> "statistics", count |-> Len(capacitances_), avg |-> avg,
          min |-> MinOf(capacitances_), max |-> MaxOf(capacitances_),
          variance |-> Variance(capacitances_),
          cv_squared |-> FracDiv(Variance(capacitances_), FracMul(avg, avg))]
    ELSE [kind |-> "single", count |-> 1, avg |-> capacitances_[1],
          min |-> capacitances_[1], max |-> capacitances_[1],
          variance |-> FracZero, cv_squared |-> FracZero]

\* lines 142-215: what analyze() returns or raises, with its locals cycles,
\* cycle_results, capacitances and avg_capacitance, and what it reports
analyze(cv, meta, data, factor, count) ==
    LET nothing == [ret |-> "False", cycles |-> <<>>, cycle_results |-> <<>>,
                    capacitances |-> <<>>, avg_capacitance |-> FracZero,
                    report |-> NoReport]
        \* lines 203-215, with the average of a non-empty capacitances
        averaged(found, avg) ==
            \* line 210: std_dev / avg_capacitance
            IF Len(found.capacitances) > 1 /\ avg = FracZero
            THEN [found EXCEPT !.ret = "ZeroDivisionError", !.avg_capacitance = avg]
            ELSE [found EXCEPT !.ret = "True", !.avg_capacitance = avg,
                               !.report = final_report(found.capacitances, avg)]
        \* lines 181-201, with the results of the cycles
        aggregated(cs, rs, caps) ==
            IF rs.raised
            THEN [nothing EXCEPT !.ret = "ZeroDivisionError", !.cycles = cs]
            ELSE IF caps = <<>>
            THEN [nothing EXCEPT !.cycles = cs, !.cycle_results = rs.results]
            ELSE averaged([nothing EXCEPT !.cycles = cs, !.cycle_results = rs.results,
                                          !.capacitances = caps],
                          calculate_robust_average(caps, count))
        \* lines 175-179, with the cycles found
        calculated(cs, rs) ==
            aggregated(cs, rs, [j \in 1..Len(rs.results) |-> rs.results[j].capacitance])
        \* lines 166-172, with what _split_into_cycles returned
        segmented(cs) ==
            IF cs = <<>> THEN nothing ELSE calculated(cs, results_of(cs, meta, factor))
    IN  IF ~cv THEN nothing
        ELSE IF data = <<>> THEN nothing
        ELSE segmented(split_into_cycles(data, meta))

-----------------------------------------------------------------------------
(* State shared by the specifications. *)

\* the result variable before any _calculate_cycle_capacitance call
NoResult == [kind |-> "none", cycle_num |-> 0, area |-> 0, capacitance |-> FracZero,
             is_outlier |-> FALSE, outlier_reason |-> None, warning |-> None]

\* an empty dict
EmptyDict == [k \in {} |-> 0]

\* the fields of a CVAnalyzer
Analyzer(factor, count, path, meta, data, cv) ==
    /\ sensitivity_threshold_factor = factor
    /\ outlier_count = count
    /\ file_path = path
    /\ metadata = meta
    /\ voltage_current_data = data
    /\ is_cv = cv

\* CVAnalyzer.__init__, lines 18-23
NewAnalyzer(factor, count) == Analyzer(factor, count, None, EmptyDict, <<>>, FALSE)

\* CVAnalysisGUI.__init__, lines 45-51, and the widgets of init_ui: nothing is
\* plotted and the save buttons are disabled (ui_components, lines 177-185)
NoFigure == [drawn |-> FALSE, cycles_data |-> <<>>, cycle_results |-> <<>>]
NewWindow ==
    [analyzer |-> None, cycles_data |-> <<>>, capacitances |-> <<>>,
     cycle_results |-> <<>>, file_path |-> None, electrode_area |-> None,
     file_label |-> None, figure |-> NoFigure, save_enabled |-> FALSE]

\* no plot file has been written
NotExported == [name |-> None, figure |-> NoFigure]

\* a window in which no file has been loaded
NoFileLoaded ==
    /\ window = NewWindow
    /\ exported = NotExported

\* JSON values: a number or boolean, and a dict (a function on its keys)
Scalar(v) == [kind |-> "scalar", value |-> v]
Dict(items) == [kind |-> "dict", items |-> items]

\* {"fontsize": fontsize, "bold": bold}
Font(fontsize, bold) == Dict([fontsize |-> Scalar(fontsize), bold |-> Scalar(bold)])

\* the dict written at lines 15-44, the value of "plot" in DEFAULT_CONFIG
DefaultPlot ==
    Dict([title |-> Font(20, TRUE), xlabel |-> Font(14, FALSE),
          ylabel |-> Font(14, FALSE), xtick |-> Font(10, FALSE),
          ytick |-> Font(10, FALSE), legend |-> Font(12, FALSE),
          text |-> Font(16, TRUE)])

\* the files of the configurations: config.json beside the script, and a
\* file to import from and export to; a file is absent, holds no JSON
\* ("garbage") or holds a JSON value
ConfigPaths == {"config.json", "other.json"}
Absent == [kind |-> "absent"]
Garbage == [kind |-> "garbage"]

\* a dict that holds nothing, the config of a manager not yet constructed
NoConfig == [key \in {} |-> "DEFAULT_CONFIG.plot"]

\* the module config_manager has been imported (lines 14-45) and no
\* ConfigManager has been constructed
ModuleImported ==
    /\ DEFAULT_CONFIG = [plot |-> "DEFAULT_CONFIG.plot"]
    /\ heap = [object \in {"DEFAULT_CONFIG.plot"} |-> DefaultPlot]
    /\ config = NoConfig

NoManager ==
    /\ ModuleImported
    /\ disk = [path \in ConfigPaths |-> Absent]

\* nothing has been called yet
NoCalls ==
    /\ last_call = "init"
    /\ last_file = None
    /\ ret = None
    /\ read_ret = None
    /\ reads = 0
    /\ cycles = <<>>
    /\ cycle_results = <<>>
    /\ capacitances = <<>>
    /\ avg_capacitance = FracZero
    /\ result = NoResult
    /\ exit_status = None
    /\ report = NoReport
    /\ NoFileLoaded
    /\ NoManager

-----------------------------------------------------------------------------
(* SpecSplit: _split_into_cycles applied to every short sample sequence. *)

\* voltages of the sample sequences to segment (three levels)
ScanVoltages == {0, 3, 6}

\* values of the Segment line of a file
SegmentValues == {0, 1, 2, 3, 4}

\* the metadata of a file without a Segment line, or with one
SplitMetas == {EmptyDict} \cup {[k \in {"segment"} |-> s] : s \in SegmentValues}

\* a sample sequence with the given voltages; sample j carries the current 2j,
\* which segmentation never reads, so that the samples are told apart
Tagged(vs) == [j \in 1..Len(vs) |-> <<vs[j], 2 * j>>]

\* an analyzer that has read a file with the given Segment line and voltages
InitSplit ==
    /\ \E vs \in SeqsOf(ScanVoltages, 0, MaxLen), meta \in SplitMetas :
          Analyzer(DefaultFactor, DefaultOutlierCount, None, meta, Tagged(vs), TRUE)
    /\ NoCalls
    /\ cycle_data = <<>>

\* cycles = self._split_into_cycles()
SplitIntoCycles ==
    /\ last_call' = "_split_into_cycles"
    /\ cycles' = split_into_cycles(voltage_current_data, metadata)
    /\ UNCHANGED <<analyzer_vars, last_file, ret, read_ret, reads, cycle_results, capacitances,
                   avg_capacitance, cycle_data, result, exit_status, report,
                   window_vars, config_vars>>

NextSplit == SplitIntoCycles

SpecSplit == InitSplit /\ [][NextSplit]_vars

-----------------------------------------------------------------------------
(* Claims about _split_into_cycles, checked under SpecSplit. *)

Split == last_call = "_split_into_cycles"

segment_of(meta) == Get(meta, "segment", DefaultSegment)

\* the voltages of a sample sequence
VoltagesOf(data) == [j \in 1..Len(data) |-> data[j][1]]

\* C6: _split_into_cycles returns no cycles if and only if the sample sequence
\* has fewer than 2 samples, whatever the segment value.
C6_FailsOnlyBelowTwoSamples ==
    Split => (cycles = <<>> <=> Len(voltage_current_data) < 2)

\* a call with 2 samples or more where pairing produced nothing and the
\* unpaired slices were returned
C6_Witness ==
    /\ Split
    /\ Len(voltage_current_data) >= 2
    /\ segment_of(metadata) = 0
    /\ Len(cycles) = 1

\* the 0-based indices of the samples where the voltage turns (a local
\* maximum or minimum of a series without equal neighbours), in increasing order
Turns(vs) ==
    LET RECURSIVE scan(_)
        scan(j) == IF j >= Len(vs) THEN <<>>
                   ELSE IF (vs[j] > vs[j-1]) # (vs[j+1] > vs[j])
                        THEN <<j - 1>> \o scan(j + 1)
                        ELSE scan(j + 1)
    IN  scan(2)

\* vs is made of exactly n strictly monotonic half-scans, the first ascending
Triangular(vs, n) ==
    /\ Len(vs) >= 2
    /\ \A j \in 1..(Len(vs) - 1) : vs[j] # vs[j+1]
    /\ vs[2] > vs[1]
    /\ Len(Turns(vs)) = n - 1

\* the samples of half-scans 2k-1 and 2k of a triangular series: a turning
\* sample closes its half-scan
FullCycle(data, n, k) ==
    LET t == Turns(VoltagesOf(data))
        start == IF k = 1 THEN 0 ELSE t[2 * k - 2] + 1
        end == IF 2 * k = n THEN Len(data) ELSE t[2 * k] + 1
    IN  Slice(data, start, end)

\* the number of samples of each half-scan of a triangular series
HalfScanLengths(vs) ==
    LET t == <<-1>> \o Turns(vs) \o <<Len(vs) - 1>>
    IN  [j \in 1..(Len(t) - 1) |-> t[j+1] - t[j]]

\* cycle k is the k-th up half-scan followed by the next down half-scan
PairsHalfScans ==
    LET n == segment_of(metadata)
    IN  /\ Len(cycles) = n \div 2
        /\ \A k \in 1..(n \div 2) : cycles[k] = FullCycle(voltage_current_data, n, k)

TriangularInput ==
    /\ Split
    /\ segment_of(metadata) % 2 = 0
    /\ Triangular(VoltagesOf(voltage_current_data), segment_of(metadata))

\* C7 as stated: for a series of exactly `segment` strictly monotonic
\* half-scans, up first, segmentation returns segment/2 cycles, cycle k being
\* the k-th up half-scan followed by the next down half-scan.
C7_Original == TriangularInput => PairsHalfScans

\* C7 as amended: the same, for a series each of whose half-scans has at least
\* 2 samples.
C7_PairsHalfScansOfTwoSamples ==
    (/\ TriangularInput
     /\ \A j \in 1..segment_of(metadata) :
            HalfScanLengths(VoltagesOf(voltage_current_data))[j] >= 2)
    => PairsHalfScans

\* four half-scans of two samples each, split into two cycles
C7_Witness ==
    /\ TriangularInput
    /\ segment_of(metadata) = 4
    /\ \A j \in 1..4 : HalfScanLengths(VoltagesOf(voltage_current_data))[j] >= 2
    /\ Len(cycles) = 2

\* C8: for every sample sequence and every segment >= 2 (10 when absent),
\* _split_into_cycles returns at most segment // 2 cycles.
C8_AtMostHalfSegmentCycles ==
    (Split /\ segment_of(metadata) >= 2)
    => Len(cycles) <= segment_of(metadata) \div 2

\* a series with more reversals than segment allows, paired into one cycle
C8_Witness ==
    /\ Split
    /\ segment_of(metadata) = 2
    /\ Len(direction_change_indices(voltage_current_data)) > 3
    /\ Len(cycles) = 1
    /\ Len(cycles[1]) = Len(voltage_current_data)

\* the direction labels as the comment of line 255 has them: +1 for the first
\* sample, then +1 after a rise, -1 after a fall, the previous label otherwise
AscendingFirstLabels(vs) ==
    LET RECURSIVE label(_)
        label(j) == IF j = 1 THEN 1
                    ELSE IF vs[j] > vs[j-1] THEN 1
                    ELSE IF vs[j] < vs[j-1] THEN -1
                    ELSE label(j - 1)
    IN  [j \in 1..Len(vs) |-> label(j)]

\* the 0-based indices i >= 1 whose label differs from the label at i - 1
LabelChanges(labels) == {i \in 1..(Len(labels) - 1) : labels[i+1] # labels[i]}

\* the 0-based reversal indices the code finds (the leading 0 apart)
ReversalIndices(data) ==
    LET dci == direction_change_indices(data)
    IN  {dci[k] : k \in 2..Len(dci)}

\* C19 as stated: the first sample is labelled +1, and the reversal indices
\* are the indices whose label differs from the previous label; a series
\* whose first step is descending has a reversal at index 1.
C19_FirstLabelIsAscending ==
    (Split /\ Len(voltage_current_data) >= 2)
    => ReversalIndices(voltage_current_data)
          = LabelChanges(AscendingFirstLabels(VoltagesOf(voltage_current_data)))

\* C20 as stated: every cycle returned is samples[a:b] for some a < b.
C20_CyclesAreContiguous ==
    Split =>
        \A k \in 1..Len(cycles) :
            \E a \in 0..Len(voltage_current_data), b \in 0..Len(voltage_current_data) :
                a < b /\ cycles[k] = Slice(voltage_current_data, a, b)

-----------------------------------------------------------------------------
(* SpecCycle: _calculate_cycle_capacitance applied to every short cycle.   *)
(* Every sequence of 2 samples or more is a cycle of some file: with a     *)
(* Segment line of 0 or 1 segmentation returns the whole sample sequence.  *)

\* the samples of the cycles: voltages 0 and 1 round to the same microvolt
CycleSamples == {0, 1, 3} \X {-4, -2, 2}

\* metadata with and without a Sensitivity line and a Scan Rate line; the
\* regex of line 89 matches a leading "-", so that a scan rate may be negative
CycleMetas ==
    {[k \in keys |-> IF k = "segment" THEN 1
                     ELSE IF k = "sensitivity" THEN 1
                     ELSE sr] :
        keys \in {ks \in SUBSET {"segment", "sensitivity", "scan_rate"} :
                     "segment" \in ks},
        sr \in {-2, 0, 2}}

InitCycle ==
    /\ NoCalls
    /\ \E c \in SeqsOf(CycleSamples, 0, MaxCycleLen), meta \in CycleMetas,
          factor \in {1, DefaultFactor} :
          /\ Analyzer(factor, DefaultOutlierCount, None, meta, c, TRUE)
          /\ cycle_data = c

\* result = self._calculate_cycle_capacitance(1, cycle_data)
CalculateCycleCapacitance ==
    /\ last_call' = "_calculate_cycle_capacitance"
    /\ result' = calculate_cycle_capacitance(1, cycle_data, metadata,
                                             sensitivity_threshold_factor)
    /\ UNCHANGED <<analyzer_vars, last_file, ret, read_ret, reads, cycles, cycle_results,
                   capacitances, avg_capacitance, cycle_data, exit_status, report,
                   window_vars, config_vars>>

NextCycle == CalculateCycleCapacitance

SpecCycle == InitCycle /\ [][NextCycle]_vars

-----------------------------------------------------------------------------
(* Claims about _calculate_cycle_capacitance, checked under SpecCycle. *)

Calculated == last_call = "_calculate_cycle_capacitance"

\* some sample of the cycle has |current| > sensitivity * factor
Overflows ==
    \E j \in 1..Len(cycle_data) :
        Abs(cycle_data[j][2]) >
            Get(metadata, "sensitivity", DefaultSensitivity) * sensitivity_threshold_factor

\* the forward scan of the cycle has one voltage only
DegenerateForward ==
    LET forward == split_forward_reverse(cycle_data)[1]
    IN  \A j \in 1..Len(forward) : forward[j][1] = forward[1][1]

\* C3 as stated: a non-overflow cycle whose forward scan has a degenerate
\* voltage range yields no result (None); no error is raised.
C3_DegenerateRangeYieldsNone ==
    (Calculated /\ Len(cycle_data) >= 2 /\ ~Overflows /\ DegenerateForward)
    => result.kind = "None"

\* C9: for a cycle of 2 samples or more, a sample with |current| strictly above
\* sensitivity * factor makes the result an outlier with area 0, capacitance 0,
\* a reason and a warning; with no such sample the result is never an outlier.
C9_OverflowFlagsOutlier ==
    (Calculated /\ Len(cycle_data) >= 2)
    => /\ Overflows =>
            /\ result.kind = "dict"
            /\ result.is_outlier
            /\ result.area = 0
            /\ result.capacitance = FracZero
            /\ result.outlier_reason # None
            /\ result.warning # None
       /\ ~Overflows => ~(result.kind = "dict" /\ result.is_outlier)

\* a cycle flagged for one negative current beyond the threshold, its other
\* samples being exactly at the threshold
C9_Witness ==
    /\ Calculated
    /\ Len(cycle_data) >= 2
    /\ sensitivity_threshold_factor = 1
    /\ "sensitivity" \notin DOMAIN metadata
    /\ cycle_data[1][2] = -4
    /\ \A j \in 2..Len(cycle_data) : Abs(cycle_data[j][2]) = 2
    /\ result.is_outlier

\* C18 as stated: every result returned has area >= 0 and capacitance >= 0.
C18_AreaAndCapacitanceNonNegative ==
    (Calculated /\ result.kind = "dict")
    => /\ result.area >= 0
       /\ ~FracLess(result.capacitance, FracZero)

-----------------------------------------------------------------------------
(* SpecLoop: _calculate_cycle_capacitance applied to rectangular loops: a  *)
(* cycle whose first n samples carry the current +I0 and whose other       *)
(* samples carry -I0, over every short voltage series.                     *)

LoopVoltages == {0, 3, 6}

LoopCurrents == {2, 4}

\* the cycle with voltages vs, +I0 on its first n samples and -I0 on the rest
Loop(vs, n, I0) == [j \in 1..Len(vs) |-> <<vs[j], IF j <= n THEN I0 ELSE -I0>>]

\* metadata with and without a Scan Rate line
LoopMetas == {[k \in {"segment"} |-> 1],
              [k \in {"segment", "scan_rate"} |-> IF k = "segment" THEN 1 ELSE 2]}

InitLoop ==
    /\ NoCalls
    /\ \E vs \in SeqsOf(LoopVoltages, 2, MaxLoopLen), I0 \in LoopCurrents,
          meta \in LoopMetas :
          \E n \in 1..(Len(vs) - 1) :
             /\ Analyzer(DefaultFactor, DefaultOutlierCount, None, meta,
                         Loop(vs, n, I0), TRUE)
             /\ cycle_data = Loop(vs, n, I0)

NextLoop == CalculateCycleCapacitance

SpecLoop == InitLoop /\ [][NextLoop]_vars

\* the cycle is a forward branch of n >= 2 samples of strictly ascending
\* voltage and current +I0, followed by a reverse branch of current -I0
\* sampled at exactly the voltages of the forward branch
IdealLoop(c, n, I0) ==
    /\ n >= 2
    /\ n < Len(c)
    /\ \A j \in 1..n : c[j][2] = I0
    /\ \A j \in (n + 1)..Len(c) : c[j][2] = -I0
    /\ \A j \in 1..(n - 1) : c[j][1] < c[j+1][1]
    /\ {c[j][1] : j \in 1..n} = {c[j][1] : j \in (n + 1)..Len(c)}

\* C10 as stated: the area of an ideal loop is I0 * voltage_range.
C10_Original ==
    Calculated =>
        \A n \in 1..Len(cycle_data), I0 \in LoopCurrents :
            (IdealLoop(cycle_data, n, I0) /\ result.kind = "dict")
            => result.area = I0 * (cycle_data[n][1] - cycle_data[1][1])

\* C10 as amended: the area of an ideal loop is 2 * I0 * voltage_range.
C10_AreaIsTwiceI0TimesRange ==
    Calculated =>
        \A n \in 1..Len(cycle_data), I0 \in LoopCurrents :
            (IdealLoop(cycle_data, n, I0) /\ result.kind = "dict")
            => result.area = 2 * I0 * (cycle_data[n][1] - cycle_data[1][1])

\* the loop 0, 3, 6 | 6, 3, 0 with I0 = 4: two trapezoids, area 2 * 4 * 6
C10_Witness ==
    /\ Calculated
    /\ IdealLoop(cycle_data, 3, 4)
    /\ Len(cycle_data) = 6
    /\ result.kind = "dict"
    /\ result.area = 48

\* metadata.get('scan_rate', 0.01) of the analyzer
scan_rate_of(meta) == Get(meta, "scan_rate", DefaultScanRate)

-----------------------------------------------------------------------------
(* Spec: one CVAnalyzer on which read_file and analyze are called in any   *)
(* order, on the files below.                                              *)

\* a data line "<v>, <i>", a blank line, a line of text without comma, and the
\* header line 'Potential/V, Current/A'
Row(v, i) == <<Num(v), Num(i)>>
BlankLine == <<>>
TextLine == <<Str>>
HeaderLine == <<Str, Str>>

\* a file: whether it can be opened; whether its text has the marker
\* 'Cyclic Voltammetry'; the metadata lines of its first 50 lines; whether it
\* has a header line 'Potential/V, Current/A'; the lines after the first
\* header line
File(path, readable, marker, meta, header, lines) ==
    [path |-> path, readable |-> readable, marker |-> marker, meta |-> meta,
     meta_error |-> FALSE, header |-> header, lines |-> lines]

\* a file one of whose metadata lines has a matched value that is no number,
\* such as "Scan Rate (V/s) = -"; meta holds the lines before it
BadMetadataFile(path, meta, lines) ==
    [path |-> path, readable |-> TRUE, marker |-> TRUE, meta |-> meta,
     meta_error |-> TRUE, header |-> TRUE, lines |-> lines]

Files ==
    { \* a path that cannot be opened
      File("missing.txt", FALSE, FALSE, EmptyDict, FALSE, <<>>),
      \* another technique: no marker, but a data block
      File("other.txt", TRUE, FALSE, [segment |-> 2], TRUE,
           <<Row(0, 2), Row(3, 2)>>),
      \* a CV file without header line
      File("nohdr.txt", TRUE, TRUE, [sensitivity |-> 1], FALSE,
           <<Row(0, 2), Row(3, 2)>>),
      \* a CV file with a header line and no sample after it
      File("norows.txt", TRUE, TRUE, [scan_rate |-> 2], TRUE,
           <<BlankLine, TextLine>>),
      \* one sample only
      File("one.txt", TRUE, TRUE, EmptyDict, TRUE, <<Row(0, 2)>>),
      \* one cycle, a current beyond 10 x the default sensitivity
      File("overflow.txt", TRUE, TRUE, [segment |-> 2], TRUE,
           <<Row(0, 2), Row(3, 22), BlankLine, Row(0, -2)>>),
      \* one cycle 0, 6, 0 of capacitance 1
      File("loop.txt", TRUE, TRUE, [segment |-> 2], TRUE,
           <<Row(0, 2), Row(6, 2), Row(3, -2), Row(0, -2), TextLine>>),
      \* two cycles of capacitances 2 and 1
      File("two.txt", TRUE, TRUE, [segment |-> 4, scan_rate |-> 1], TRUE,
           <<Row(0, 4), Row(6, 4), Row(3, -4), Row(0, -4),
             Row(3, 2), Row(6, 2), Row(3, -2), Row(0, -2)>>),
      \* a descending scan first: the maximum voltage is the first sample
      File("down.txt", TRUE, TRUE, EmptyDict, TRUE,
           <<Row(6, 2), Row(3, 2), Row(0, 2)>>),
      \* "Init E (V) = 0.5", then "Scan Rate (V/s) = -"
      BadMetadataFile("badmeta.txt", [init_e |-> 1], <<Row(0, 2), Row(3, 2)>>) }

Init ==
    /\ NewAnalyzer(DefaultFactor, DefaultOutlierCount)
    /\ NoCalls
    /\ cycle_data = <<>>

\* self.read_file(file.path)
ReadFile(file) ==
    /\ reads < MaxReads
    /\ \E r \in {read_file(file, file_path, is_cv, metadata, voltage_current_data)} :
           /\ ret' = r[1]
           /\ read_ret' = r[1]
           /\ file_path' = r[2]
           /\ is_cv' = r[3]
           /\ metadata' = r[4]
           /\ voltage_current_data' = r[5]
    /\ last_call' = "read_file"
    /\ last_file' = file
    /\ reads' = reads + 1
    /\ cycles' = <<>>
    /\ cycle_results' = <<>>
    /\ capacitances' = <<>>
    /\ avg_capacitance' = FracZero
    /\ report' = NoReport
    /\ UNCHANGED <<sensitivity_threshold_factor, outlier_count, cycle_data, result,
                   exit_status, window_vars, config_vars>>

\* self.analyze()
Analyze ==
    /\ \E a \in {analyze(is_cv, metadata, voltage_current_data,
                         sensitivity_threshold_factor, outlier_count)} :
           /\ ret' = a.ret
           /\ cycles' = a.cycles
           /\ cycle_results' = a.cycle_results
           /\ capacitances' = a.capacitances
           /\ avg_capacitance' = a.avg_capacitance
           /\ report' = a.report
    /\ last_call' = "analyze"
    /\ UNCHANGED <<analyzer_vars, last_file, read_ret, reads, cycle_data, result,
                   exit_status, window_vars, config_vars>>

Next ==
    \/ \E file \in Files : ReadFile(file)
    \/ Analyze

Spec == Init /\ [][Next]_vars

-----------------------------------------------------------------------------
(* Claims about read_file and analyze, checked under Spec. *)

Analyzed == last_call = "analyze"

\* C1: when every cycle of the loaded file is flagged as a current overflow,
\* analyze() returns False.
C1_AllOverflowReturnsFalse ==
    (/\ Analyzed
     /\ cycles # <<>>
     /\ \A k \in 1..Len(cycles) :
            calculate_cycle_capacitance(k, cycles[k], metadata,
                                        sensitivity_threshold_factor).is_outlier)
    => ret = "False"

\* C2: the capacitances analyze() aggregates are exactly those of the cycle
\* results with is_outlier = false and capacitance > 0, in cycle order.
C2_AggregatesValidCapacitances ==
    (Analyzed /\ ret = "True")
    => capacitances = get_valid_capacitances(cycle_results)

\* the samples and the metadata one file contains
SamplesOf(file) == parse_voltage_current_data(<<>>, file)
MetadataOf(file) == parse_metadata(EmptyDict, file)

\* C4: a read_file call that returns True leaves the sample sequence and the
\* metadata equal to what that one file contains.
C4_ReadFileReplacesData ==
    (last_call = "read_file" /\ ret = "True")
    => /\ voltage_current_data = SamplesOf(last_file)
       /\ metadata = MetadataOf(last_file)

\* C5: if the most recent read_file call failed, a following analyze()
\* returns False.
C5_AnalyzeFailsAfterFailedRead ==
    (Analyzed /\ read_ret = "False") => ret = "False"

-----------------------------------------------------------------------------
(* SpecRobust: _calculate_robust_average applied to every short non-empty  *)
(* list of capacitances (analyze() never passes an empty list), for every  *)
(* outlier_count from 0 to beyond the length of the list.                  *)

\* the capacitances of the lists: 0, 1/2, 1 and 10
RobustValues == {<<0, 1>>, <<1, 2>>, <<1, 1>>, <<10, 1>>}

\* CVAnalyzer(outlier_count=...)
OutlierCounts == 0..(MaxValues + 1)

InitRobust ==
    /\ \E count \in OutlierCounts : NewAnalyzer(DefaultFactor, count)
    /\ capacitances \in SeqsOf(RobustValues, 1, MaxValues)
    /\ last_call = "init"
    /\ last_file = None
    /\ ret = None
    /\ read_ret = None
    /\ reads = 0
    /\ cycles = <<>>
    /\ cycle_results = <<>>
    /\ avg_capacitance = FracZero
    /\ cycle_data = <<>>
    /\ result = NoResult
    /\ exit_status = None
    /\ report = NoReport
    /\ NoFileLoaded
    /\ NoManager

\* avg_capacitance = self._calculate_robust_average(capacitances)
CalculateRobustAverage ==
    /\ last_call' = "_calculate_robust_average"
    /\ avg_capacitance' = calculate_robust_average(capacitances, outlier_count)
    /\ UNCHANGED <<analyzer_vars, last_file, ret, read_ret, reads, cycles, cycle_results,
                   capacitances, cycle_data, result, exit_status, report,
                   window_vars, config_vars>>

NextRobust == CalculateRobustAverage

SpecRobust == InitRobust /\ [][NextRobust]_vars

-----------------------------------------------------------------------------
(* Claims about _calculate_robust_average, checked under SpecRobust. *)

Averaged == last_call = "_calculate_robust_average"

AllEqual(values) == \A j \in 1..Len(values) : values[j] = values[1]

\* C12: the robust average of a list whose values all equal c is c, whatever
\* outlier_count is.
C12_EqualValuesAverageToThatValue ==
    (Averaged /\ AllEqual(capacitances)) => avg_capacitance = capacitances[1]

\* three values 1/2 with outlier_count = 1 (the standard deviation is zero)
C12_Witness ==
    /\ Averaged
    /\ capacitances = <<<<1, 2>>, <<1, 2>>, <<1, 2>>>>
    /\ outlier_count = 1
    /\ avg_capacitance = <<1, 2>>

\* the values at the indices of values that are not in removed, in order
Kept(values, removed) ==
    LET RECURSIVE loop(_)
        loop(j) == IF j > Len(values) THEN <<>>
                   ELSE IF j \in removed THEN loop(j + 1)
                   ELSE <<values[j]>> \o loop(j + 1)
    IN  loop(1)

\* |values[j] - mean|: the z-score of values[j] times the standard deviation
Distance(values, j) == FracAbs(FracSub(values[j], Mean(values)))

\* value a is removed before value b: a larger z-score, or the same z-score
\* and an earlier place in the list
RemovedBefore(values, a, b) ==
    \/ FracLess(Distance(values, b), Distance(values, a))
    \/ Distance(values, a) = Distance(values, b) /\ a < b

\* C13: with more than outlier_count values of non-zero standard deviation,
\* the robust average is the mean of the values left after removing exactly
\* outlier_count values, each removed value having a larger z-score than each
\* kept value, or the same z-score and an earlier place in the list.
C13_RemovesLargestZScores ==
    (Averaged /\ Len(capacitances) > outlier_count /\ ~AllEqual(capacitances))
    => \E removed \in SUBSET (1..Len(capacitances)) :
          /\ Cardinality(removed) = outlier_count
          /\ \A a \in removed, b \in (1..Len(capacitances)) \ removed :
                RemovedBefore(capacitances, a, b)
          /\ avg_capacitance = Mean(Kept(capacitances, removed))

\* [1.0, 1.0, 1.0, 10.0] with outlier_count = 1: 10.0 is removed, the average is 1.0
C13_Witness ==
    /\ Averaged
    /\ capacitances = <<<<1, 1>>, <<1, 1>>, <<1, 1>>, <<10, 1>>>>
    /\ outlier_count = 1
    /\ avg_capacitance = <<1, 1>>

-----------------------------------------------------------------------------
(* SpecRead: read_file called on a freshly created CVAnalyzer, as main()   *)
(* and the GUI call it, for every file with a short data block.            *)

\* the lines of the data blocks: two samples, a blank line, a line of one
\* field, of three fields, of two fields the first or the second of which is
\* no number, and a second header line
LineKinds ==
    {Row(0, 2), Row(3, 2), BlankLine, TextLine, <<Num(0), Num(2), Num(2)>>,
     <<Str, Num(2)>>, <<Num(0), Str>>, HeaderLine}

\* every file with a data block of MaxLines lines at most
TextFiles ==
    {[path |-> "data.txt", readable |-> readable, marker |-> marker, meta |-> meta,
      meta_error |-> meta_error, header |-> header, lines |-> lines] :
        readable \in BOOLEAN, marker \in BOOLEAN, meta_error \in BOOLEAN,
        header \in BOOLEAN, meta \in {EmptyDict, [segment |-> 2]},
        lines \in SeqsOf(LineKinds, 0, MaxLines)}

\* CVAnalyzer(...).read_file(file.path): the first call on an analyzer
ReadNewFile(file) == reads = 0 /\ ReadFile(file)

NextRead == \E file \in TextFiles : ReadNewFile(file)

SpecRead == Init /\ [][NextRead]_vars

-----------------------------------------------------------------------------
(* Claims about read_file on a fresh analyzer, checked under SpecRead. *)

Read == last_call = "read_file"

\* the indices of the lines that have exactly two fields, both numbers
ValidIndices(lines) ==
    {j \in 1..Len(lines) :
        /\ Len(lines[j]) = 2
        /\ \A f \in 1..2 : lines[j][f][1] = "num"}

\* the lines after the first header line of a file
LinesAfterHeader(file) == IF file.header THEN file.lines ELSE <<>>

\* C14 as stated: read_file returns True if the file can be read, has the
\* technique marker, has a header line and a valid sample row after it, and
\* returns False in every other case.
C14_TrueIffMarkerHeaderAndRow ==
    Read =>
        read_ret = IF /\ last_file.readable
                      /\ last_file.marker
                      /\ ValidIndices(LinesAfterHeader(last_file)) # {}
                   THEN "True" ELSE "False"

\* C15: the sample sequence parsed from a file consists of the lines after
\* the header line that have exactly two fields, both numbers, in file order:
\* as many samples as valid lines, the k-th sample read from the k-th valid line.
C15_SamplesAreValidLinesInOrder ==
    (Read /\ last_file.readable /\ last_file.marker /\ ~last_file.meta_error)
    => LET lines == LinesAfterHeader(last_file)
           valid == ValidIndices(lines)
       IN  /\ Len(voltage_current_data) = Cardinality(valid)
           /\ \A j \in valid :
                 voltage_current_data[Cardinality({i \in valid : i <= j})]
                    = <<lines[j][1][2], lines[j][2][2]>>

\* a data block whose first line has an unparseable field, followed by a
\* blank line and a valid line: one sample
C15_Witness ==
    /\ Read
    /\ read_ret = "True"
    /\ last_file.lines = <<<<Str, Num(2)>>, BlankLine, Row(3, 2)>>
    /\ voltage_current_data = <<<<3, 2>>>>

-----------------------------------------------------------------------------
(* SpecMain: one run of the command line, python cv_analysis.py [path].    *)

\* the files given to main(): the files above, and every file with a data
\* block of two lines at most
MainFiles == Files \cup {file \in TextFiles : Len(file.lines) <= 2}

\* sys.argv[1:]: no argument, or the path of a file
Argvs == {<<>>} \cup {<<file>> : file \in MainFiles}

\* main(), lines 479-499, and the exit of the interpreter: status 1 after
\* sys.exit(1) and after an uncaught exception, status 0 when main() returns
Main(argv) ==
    /\ last_call = "init"
    /\ last_call' = "main"
    /\ IF argv = <<>>
       THEN /\ exit_status' = 1
            /\ UNCHANGED <<analyzer_vars, last_file, ret, read_ret, reads, cycles,
                           cycle_results, capacitances, avg_capacitance, report>>
       ELSE \E r \in {read_file(argv[1], None, FALSE, EmptyDict, <<>>)} :
            /\ sensitivity_threshold_factor' = DefaultFactor
            /\ outlier_count' = DefaultOutlierCount
            /\ file_path' = r[2]
            /\ is_cv' = r[3]
            /\ metadata' = r[4]
            /\ voltage_current_data' = r[5]
            /\ last_file' = argv[1]
            /\ read_ret' = r[1]
            /\ reads' = 1
            /\ IF r[1] # "True"
               THEN /\ ret' = r[1]
                    /\ exit_status' = 1
                    /\ UNCHANGED <<cycles, cycle_results, capacitances, avg_capacitance,
                                   report>>
               ELSE \E a \in {analyze(r[3], r[4], r[5], DefaultFactor,
                                      DefaultOutlierCount)} :
                    /\ ret' = a.ret
                    /\ cycles' = a.cycles
                    /\ cycle_results' = a.cycle_results
                    /\ capacitances' = a.capacitances
                    /\ avg_capacitance' = a.avg_capacitance
                    /\ report' = a.report
                    /\ exit_status' = IF a.ret = "True" THEN 0 ELSE 1
    /\ UNCHANGED <<cycle_data, result, window_vars, config_vars>>

NextMain == \E argv \in Argvs : Main(argv)

SpecMain == Init /\ [][NextMain]_vars

-----------------------------------------------------------------------------
(* Claims about main(), checked under SpecMain. *)

Exited == last_call = "main"

\* the file was analyzed and every one of its cycles was flagged
AllCyclesFlagged ==
    /\ read_ret = "True"
    /\ cycle_results # <<>>
    /\ \A k \in 1..Len(cycle_results) : cycle_results[k].is_outlier

\* C16 as stated: the exit status is 0 exactly when read_file and analyze both
\* succeeded, and it is 1 without file argument and after a parse,
\* segmentation or aggregation failure (no cycle left: all of them flagged).
C16_ExitStatusTellsFailure ==
    Exited =>
        /\ exit_status = 0 <=> (read_ret = "True" /\ ret = "True")
        /\ (reads = 0 \/ read_ret # "True" \/ AllCyclesFlagged) => exit_status = 1

-----------------------------------------------------------------------------
(* Claims about the cycles of analyze(), checked under Spec. *)

\* the forward scan of a cycle has one voltage only
Degenerate(cycle) ==
    LET forward == split_forward_reverse(cycle)[1]
    IN  \A j \in 1..Len(forward) : forward[j][1] = forward[1][1]

\* C17 as stated: every cycle of the file has its own result in cycle_results,
\* and the result of a cycle with a current overflow or a degenerate voltage
\* range has is_outlier = true and a warning.
C17_IssueCyclesAreRetained ==
    (Analyzed /\ cycles # <<>>)
    => /\ Len(cycle_results) = Len(cycles)
       /\ \A k \in 1..Len(cycle_results) :
             /\ cycle_results[k].cycle_num = k
             /\ (\/ has_overflow(cycles[k],
                        Get(metadata, "sensitivity", DefaultSensitivity)
                            * sensitivity_threshold_factor)
                 \/ Degenerate(cycles[k]))
                => /\ cycle_results[k].is_outlier
                   /\ cycle_results[k].warning # None

-----------------------------------------------------------------------------
(* Claims about the cycles _split_into_cycles returns, checked under       *)
(* SpecSplit.                                                              *)

\* C21: every cycle returned has at least 2 samples.
C21_CyclesHaveTwoSamples ==
    Split => \A k \in 1..Len(cycles) : Len(cycles[k]) >= 2

\* the series 0, 3, 0 without Segment line: the slice of the last sample alone
\* is not returned
C21_Witness ==
    /\ Split
    /\ VoltagesOf(voltage_current_data) = <<0, 3, 0>>
    /\ "segment" \notin DOMAIN metadata
    /\ cycles = <<<<voltage_current_data[1], voltage_current_data[2]>>>>

\* the slices kept after the length filter of line 287
KeptSlices == slices(voltage_current_data, segment_of(metadata))

\* C22: with n slices kept and expected = segment // 2: the slices are
\* returned unchanged if n <= expected; if n > expected and n >= 2, n \div 2
\* cycles are returned, cycle k being slice 2k followed by slice 2k+1 (0-based),
\* a trailing slice being dropped; if n > expected and n < 2, the slices are
\* returned.
C22_PairsSlicesTwoByTwo ==
    (Split /\ Len(voltage_current_data) >= 2)
    => LET kept == KeptSlices
           n == Len(kept)
           expected == segment_of(metadata) \div 2
       IN  IF n <= expected \/ n < 2
           THEN cycles = kept
           ELSE /\ Len(cycles) = n \div 2
                /\ \A k \in 1..(n \div 2) :
                      cycles[k] = kept[2 * k - 1] \o kept[2 * k]

\* three slices kept for an expected count of 1: one cycle of the first two
\* slices, the third slice dropped
C22_Witness ==
    /\ Split
    /\ Len(KeptSlices) = 3
    /\ segment_of(metadata) \div 2 = 1
    /\ cycles = <<KeptSlices[1] \o KeptSlices[2]>>

\* the 0-based sample indices of a cycle: sample j carries the current 2(j+1)
IndicesOf(cycle) == [j \in 1..Len(cycle) |-> (cycle[j][2] \div 2) - 1]

\* the cycles concatenated in order
RECURSIVE Concatenated(_)
Concatenated(cs) == IF cs = <<>> THEN <<>> ELSE Head(cs) \o Concatenated(Tail(cs))

\* C28: the cycles returned, concatenated in order, are a subsequence of the
\* sample sequence: their sample indices are strictly increasing, so that no
\* sample occurs twice.
C28_CyclesAreASubsequence ==
    Split =>
        LET all == Concatenated(cycles)
            idx == IndicesOf(all)
        IN  /\ \A j \in 1..Len(all) : all[j] = voltage_current_data[idx[j] + 1]
            /\ \A j \in 1..(Len(all) - 1) : idx[j] < idx[j+1]

\* two cycles returned, the second starting right after the first
C28_Witness ==
    /\ Split
    /\ Len(cycles) = 2
    /\ IndicesOf(cycles[2])[1] = IndicesOf(cycles[1])[Len(cycles[1])] + 1

-----------------------------------------------------------------------------
(* Claims about _split_forward_reverse and _calculate_area, checked under  *)
(* SpecCycle.                                                              *)

\* the call went past the overflow test to line 339
SplitReached == Calculated /\ Len(cycle_data) >= 2 /\ ~Overflows

\* the voltages of the cycle
CycleVoltages == {cycle_data[j][1] : j \in 1..Len(cycle_data)}

\* the earliest 0-based index of a sample of maximum voltage
EarliestMaximum ==
    Min({j \in 1..Len(cycle_data) : cycle_data[j][1] = Max(CycleVoltages)}) - 1

\* C23: a cycle of 2 samples or more is split at the earliest index m of its
\* maximum voltage: forward is samples 0..m, reverse is samples m..end; both
\* are non-empty, they share the sample at m and hold every sample.
C23_SplitsAtEarliestMaximum ==
    SplitReached =>
        LET m == EarliestMaximum
            halves == split_forward_reverse(cycle_data)
        IN  /\ halves[1] = [j \in 1..(m + 1) |-> cycle_data[j]]
            /\ halves[2] = [j \in 1..(Len(cycle_data) - m) |-> cycle_data[j + m]]
            /\ halves[1] # <<>>
            /\ halves[2] # <<>>
            /\ Len(halves[1]) + Len(halves[2]) = Len(cycle_data) + 1

\* a cycle whose maximum voltage is attained by its second and third samples
C23_Witness ==
    /\ SplitReached
    /\ Len(cycle_data) = 3
    /\ cycle_data[1][1] = 0
    /\ cycle_data[2][1] = 3
    /\ cycle_data[3][1] = 3
    /\ Len(split_forward_reverse(cycle_data)[1]) = 2
    /\ Len(split_forward_reverse(cycle_data)[2]) = 2

\* the forward and the reverse scan of the cycle
ForwardScan == [j \in 1..(EarliestMaximum + 1) |-> cycle_data[j]]
ReverseScan == [j \in 1..(Len(cycle_data) - EarliestMaximum) |->
                   cycle_data[j + EarliestMaximum]]

\* the rounded voltages of the reverse scan
ReverseKeys == {Round6(ReverseScan[j][1]) : j \in 1..Len(ReverseScan)}

\* the current the reverse-scan lookup holds for a rounded voltage: that of
\* the last reverse sample of that rounded voltage
Rev(k) ==
    ReverseScan[Max({j \in 1..Len(ReverseScan) : Round6(ReverseScan[j][1]) = k})][2]

\* what the forward pair j, j+1 contributes to the sum
Contribution(j) ==
    LET v1 == ForwardScan[j][1]
        v2 == ForwardScan[j+1][1]
    IN  IF Round6(v1) \in ReverseKeys /\ Round6(v2) \in ReverseKeys
        THEN (((ForwardScan[j][2] - Rev(Round6(v1)))
                + (ForwardScan[j+1][2] - Rev(Round6(v2)))) \div 2) * Abs(v2 - v1)
        ELSE 0

\* the sum of the contributions of the forward pairs 1..n
RECURSIVE ContributionSum(_)
ContributionSum(n) == IF n = 0 THEN 0 ELSE ContributionSum(n - 1) + Contribution(n)

-----------------------------------------------------------------------------
(* A further claim about _calculate_robust_average, checked under          *)
(* SpecRobust.                                                             *)

\* twice the sum of the values 1..n of the list: an integer, the values being
\* multiples of 1/2
RECURSIVE TwiceSum(_)
TwiceSum(n) ==
    IF n = 0 THEN 0
    ELSE TwiceSum(n - 1) + (2 * capacitances[n][1]) \div capacitances[n][2]

\* C25: for a list of at most outlier_count values the robust average is the
\* arithmetic mean of all the values: average * count = sum.
C25_FewValuesAverageToPlainMean ==
    (Averaged /\ Len(capacitances) <= outlier_count)
    => /\ avg_capacitance[2] > 0
       /\ 2 * Len(capacitances) * avg_capacitance[1]
             = avg_capacitance[2] * TwiceSum(Len(capacitances))

\* the list [1/2, 10] with outlier_count = 2: the average is 21/4
C25_Witness ==
    /\ Averaged
    /\ capacitances = <<<<1, 2>>, <<10, 1>>>>
    /\ outlier_count = 2
    /\ avg_capacitance = <<21, 4>>


\* ---------------------------------------------------------------------------
\* Claims about the reported statistics, under Spec
\* ---------------------------------------------------------------------------

\* the figures printed under the final results cover 2 capacitances or more
StatisticsReported == last_call = "analyze" /\ ret = "True" /\ report.kind = "statistics"

\* C26: the reported minimum, maximum and standard deviation are those of the
\* whole valid set, and the reported coefficient of variation is that standard
\* deviation divided by the mean of the same valid set
C26_DispersionOverValidSet ==
    (StatisticsReported /\ Mean(capacitances) # FracZero) =>
        /\ \E j \in 1..Len(capacitances) : report.min = capacitances[j]
        /\ \A j \in 1..Len(capacitances) : ~FracLess(capacitances[j], report.min)
        /\ \E j \in 1..Len(capacitances) : report.max = capacitances[j]
        /\ \A j \in 1..Len(capacitances) : ~FracLess(report.max, capacitances[j])
        /\ report.variance = Variance(capacitances)
        /\ report.cv_squared = FracDiv(report.variance, FracMul(Mean(capacitances),
                                                                Mean(capacitances)))


-----------------------------------------------------------------------------
(* SpecOrder: the cycles of one file, computed one call at a time in any
   order, with calls of _split_into_cycles in between. *)

\* the currents of a cycle: 22 is beyond 10 x the default sensitivity
OrderCurrents == {2, 4, 22}

\* a loop 0, 6, 0 of current I0, entered at 0 or continued from 0
OrderLoop(first, I0) ==
    (IF first THEN <<Row(0, I0)>> ELSE <<>>)
        \o <<Row(3, I0), Row(6, I0), Row(3, -I0), Row(0, -I0)>>

\* a CV file of three cycles
OrderFiles ==
    { File("order.txt", TRUE, TRUE, [segment |-> 6, scan_rate |-> 1], TRUE,
           OrderLoop(TRUE, a) \o OrderLoop(FALSE, b) \o OrderLoop(FALSE, c)) :
        a \in OrderCurrents, b \in OrderCurrents, c \in OrderCurrents }

\* read_file(file) and _split_into_cycles() have returned, no cycle has been
\* computed
InitOrder ==
    \E file \in OrderFiles, factor \in {1, DefaultFactor} :
        \E r \in {read_file(file, None, FALSE, EmptyDict, <<>>)} :
            /\ Analyzer(factor, DefaultOutlierCount, r[2], r[4], r[5], r[3])
            /\ last_call = "_split_into_cycles"
            /\ last_file = file
            /\ ret = r[1]
            /\ read_ret = r[1]
            /\ reads = 1
            /\ cycles = split_into_cycles(r[5], r[4])
            /\ cycle_results = [k \in 1..Len(cycles) |-> NoResult]
            /\ capacitances = <<>>
            /\ avg_capacitance = FracZero
            /\ cycle_data = <<>>
            /\ result = NoResult
            /\ exit_status = None
            /\ report = NoReport
            /\ NoFileLoaded
            /\ NoManager

\* a variant of CalculateCycle that keeps the threshold it computed as the
\* sensitivity of the metadata
CalculateCycle_keeping_threshold(k) ==
    /\ k \in 1..Len(cycles)
    /\ last_call' = "_calculate_cycle_capacitance"
    /\ cycle_data' = cycles[k]
    /\ result' = calculate_cycle_capacitance(k, cycles[k], metadata,
                                             sensitivity_threshold_factor)
    /\ cycle_results' = [cycle_results EXCEPT ![k] = result']
    /\ metadata' = [key \in DOMAIN metadata \cup {"sensitivity"} |->
                       IF key = "sensitivity"
                       THEN Get(metadata, "sensitivity", DefaultSensitivity)
                                * sensitivity_threshold_factor
                       ELSE metadata[key]]
    /\ UNCHANGED <<sensitivity_threshold_factor, outlier_count, file_path,
                   voltage_current_data, is_cv, last_file, ret, read_ret, reads, cycles,
                   capacitances, avg_capacitance, exit_status, report,
                   window_vars, config_vars>>

\* cycle_results[k] = self._calculate_cycle_capacitance(k, cycles[k]), for any
\* cycle k, computed or not
CalculateCycle(k) ==
    /\ k \in 1..Len(cycles)
    /\ last_call' = "_calculate_cycle_capacitance"
    /\ cycle_data' = cycles[k]
    /\ result' = calculate_cycle_capacitance(k, cycles[k], metadata,
                                             sensitivity_threshold_factor)
    /\ cycle_results' = [cycle_results EXCEPT ![k] = result']
    /\ UNCHANGED <<analyzer_vars, last_file, ret, read_ret, reads, cycles, capacitances,
                   avg_capacitance, exit_status, report,
                   window_vars, config_vars>>

NextOrder ==
    \/ SplitIntoCycles
    \/ \E k \in 1..Len(cycles) : CalculateCycle(k)

SpecOrder == InitOrder /\ [][NextOrder]_vars

\* ---------------------------------------------------------------------------
\* Claims about the order of the computations, under SpecOrder
\* ---------------------------------------------------------------------------

\* the results analyze() computes for the file, one cycle after the other
SequentialResults ==
    analyze(TRUE, MetadataOf(last_file), SamplesOf(last_file),
            sensitivity_threshold_factor, outlier_count).cycle_results

-----------------------------------------------------------------------------
(* SpecGui: the window of cv_gui.py: files are loaded, the electrode area is
   changed and the plot is saved, in any order. *)

\* the files the file dialog can return: those of Files, and a CV file
\* recorded at scan rate 0, whose cycles have no result
GuiFiles ==
    Files \cup
    { File("still.txt", TRUE, TRUE, [segment |-> 2, scan_rate |-> 0], TRUE,
           <<Row(0, 2), Row(6, 2), Row(3, -2), Row(0, -2)>>) }

\* the values of the electrode area input; 0 stands for no area
AreaValues == {0, 1}

\* lines 209-218 of cv_gui.py: the results appended before the loop ends or
\* an exception leaves it
calculated_until_error(cs, meta, factor) ==
    LET RECURSIVE loop(_, _), next(_, _, _)
        loop(k, done) ==
            IF k > Len(cs) THEN [raised |-> FALSE, cycle_results |-> done]
            ELSE next(k, done, calculate_cycle_capacitance(k, cs[k], meta, factor))
        next(k, done, r) ==
            IF r.kind = "ZeroDivisionError"
            THEN [raised |-> TRUE, cycle_results |-> done]
            ELSE loop(k + 1, IF r.kind = "None" THEN done ELSE Append(done, r))
    IN  loop(1, <<>>)

\* what update_cycles_table, update_result_text and plot_data are given
Figure(w) ==
    [drawn |-> TRUE, cycles_data |-> w.cycles_data, cycle_results |-> w.cycle_results]

\* lines 181-249 of cv_gui.py: the window after analyze_file, where r is what
\* read_file did to the new analyzer; an exception ends the handler in the
\* except clause of line 247
analyze_file(w, r) ==
    LET displayed(v) == [v EXCEPT !.figure = Figure(v), !.save_enabled = TRUE]
        computed(v, c) ==
            IF c.raised \/ c.cycle_results = <<>> THEN v ELSE displayed(v)
        looped(v, c) ==
            computed([v EXCEPT !.cycle_results = c.cycle_results,
                               !.capacitances = get_valid_capacitances(c.cycle_results)],
                     c)
        segmented(v) ==
            IF v.cycles_data = <<>> THEN v
            ELSE looped(v, calculated_until_error(v.cycles_data, r[4], DefaultFactor))
    IN  IF r[1] # "True" THEN w
        ELSE segmented([w EXCEPT !.cycles_data = split_into_cycles(r[5], r[4])])

InitGui ==
    /\ NewAnalyzer(DefaultFactor, DefaultOutlierCount)
    /\ NoCalls
    /\ cycle_data = <<>>

\* load_file, lines 164-179: the dialog returns the path of file, and
\* analyze_file makes a new analyzer read it
LoadFile(file) ==
    /\ last_call' = "load_file"
    /\ last_file' = file
    /\ \E r \in {read_file(file, None, FALSE, EmptyDict, <<>>)} :
           /\ sensitivity_threshold_factor' = DefaultFactor
           /\ outlier_count' = DefaultOutlierCount
           /\ file_path' = r[2]
           /\ is_cv' = r[3]
           /\ metadata' = r[4]
           /\ voltage_current_data' = r[5]
           /\ window' = analyze_file([window EXCEPT !.file_path = file.path,
                                                   !.file_label = file.path,
                                                   !.analyzer = "CVAnalyzer"], r)
    /\ UNCHANGED <<ret, read_ret, reads, cycles, cycle_results, capacitances,
                   avg_capacitance, cycle_data, result, exit_status, report, exported,
                   config_vars>>

\* load_file, lines 164-179: the dialog is cancelled
LoadNothing ==
    /\ last_call' = "load_file"
    /\ last_file' = None
    /\ UNCHANGED <<analyzer_vars, ret, read_ret, reads, cycles, cycle_results,
                   capacitances, avg_capacitance, cycle_data, result, exit_status,
                   report, window_vars, config_vars>>

\* on_area_changed(value), lines 147-162
OnAreaChanged(value) ==
    /\ last_call' = "on_area_changed"
    /\ window' = IF window.capacitances # <<>>
                 THEN [window EXCEPT !.electrode_area = IF value > 0 THEN value ELSE None,
                                     !.figure = Figure(window)]
                 ELSE [window EXCEPT !.electrode_area = IF value > 0 THEN value ELSE None]
    /\ UNCHANGED <<analyzer_vars, last_file, ret, read_ret, reads, cycles, cycle_results,
                   capacitances, avg_capacitance, cycle_data, result, exit_status,
                   report, exported, config_vars>>

\* save_plot_png and save_plot_svg, lines 251-257, with plot_manager lines
\* 190-237: the figure is written under the name proposed from self.file_path
SavePlot(format) ==
    /\ window.save_enabled
    /\ window.file_path # None
    /\ last_call' = format
    /\ exported' = [name |-> window.file_path, figure |-> window.figure]
    /\ UNCHANGED <<analyzer_vars, last_file, ret, read_ret, reads, cycles, cycle_results,
                   capacitances, avg_capacitance, cycle_data, result, exit_status,
                   report, window, config_vars>>

NextGui ==
    \/ \E file \in GuiFiles : LoadFile(file)
    \/ LoadNothing
    \/ \E value \in AreaValues : OnAreaChanged(value)
    \/ \E format \in {"save_plot_png", "save_plot_svg"} : SavePlot(format)

SpecGui == InitGui /\ [][NextGui]_vars

\* ---------------------------------------------------------------------------
\* Claims about the window, under SpecGui
\* ---------------------------------------------------------------------------

\* the file of a path
FileNamed(path) == CHOOSE file \in GuiFiles : file.path = path

\* the cycles and results the window holds after loading file with success
CyclesOf(file) == split_into_cycles(SamplesOf(file), MetadataOf(file))
ResultsOf(file) ==
    calculated_until_error(CyclesOf(file), MetadataOf(file), DefaultFactor).cycle_results

\* C29: whenever the window holds cycles, results or capacitances, its
\* analyzer has read the file named by self.file_path and they are the cycles,
\* results and capacitances of that file; and a plot file written under the
\* name of a file shows the cycles and results of that file
C29_ResultsBelongToCurrentFile ==
    /\ (window.cycles_data # <<>> \/ window.cycle_results # <<>>
            \/ window.capacitances # <<>>) =>
           /\ file_path = window.file_path
           /\ voltage_current_data = SamplesOf(FileNamed(window.file_path))
           /\ window.cycles_data = CyclesOf(FileNamed(window.file_path))
           /\ window.cycle_results = ResultsOf(FileNamed(window.file_path))
           /\ window.capacitances = get_valid_capacitances(window.cycle_results)
    /\ exported.figure.drawn =>
           /\ exported.figure.cycles_data = CyclesOf(FileNamed(exported.name))
           /\ exported.figure.cycle_results = ResultsOf(FileNamed(exported.name))


-----------------------------------------------------------------------------
(* SpecConfig: one ConfigManager on config.json: construction, then
   set_plot_config, import_config, export_config and reset_config in any
   order.  A dict held under a key is an object of the heap, so that two
   dicts can hold the same object. *)

\* the plot configuration a dialog returns (plot_config_dialog, lines
\* 185-199): a new dict with a font for each of the seven elements
DialogPlots ==
    { Dict([title |-> Font(size, bold), xlabel |-> Font(14, FALSE),
            ylabel |-> Font(14, FALSE), xtick |-> Font(10, FALSE),
            ytick |-> Font(10, FALSE), legend |-> Font(12, FALSE),
            text |-> Font(16, TRUE)]) : size \in {20, 24}, bold \in BOOLEAN }

\* what a configuration file can hold before the manager is constructed
ConfigContents ==
    { Absent, Garbage,
      \* the JSON text 5: no dict
      Scalar(5),
      \* {}
      Dict([key \in {} |-> Scalar(0)]),
      \* {"plot": {"title": {"fontsize": 30}}}
      Dict([plot |-> Dict([title |-> Dict([fontsize |-> Scalar(30)])])]),
      \* {"plot": 5}
      Dict([plot |-> Scalar(5)]) }

\* lines 81-98: _merge_config(default, loaded) of two dicts; copy.deepcopy
\* makes the result of new objects
RECURSIVE merge_config(_, _)
merge_config(default, loaded) ==
    Dict([key \in DOMAIN default.items \cup DOMAIN loaded.items |->
            IF key \notin DOMAIN loaded.items THEN default.items[key]
            ELSE IF key \notin DOMAIN default.items THEN loaded.items[key]
            ELSE IF loaded.items[key].kind = "dict" /\ default.items[key].kind = "dict"
                 THEN merge_config(default.items[key], loaded.items[key])
                 ELSE loaded.items[key]])

\* the JSON value of a dict whose keys hold objects of the heap h
Value(top, h) == Dict([key \in DOMAIN top |-> h[top[key]]])

\* lines 100-102: get_plot_config()
get_plot_config(cfg, h) ==
    IF "plot" \in DOMAIN cfg THEN h[cfg.plot] ELSE Dict([key \in {} |-> Scalar(0)])

\* the heap of the objects of DEFAULT_CONFIG and of one more plot object
WithObject(h, plot) ==
    [object \in {"DEFAULT_CONFIG.plot", "config.plot"} |->
        IF object = "config.plot" THEN plot ELSE h[object]]

\* the heap of the objects of DEFAULT_CONFIG alone
DefaultObjects(h) == [object \in {"DEFAULT_CONFIG.plot"} |-> h[object]]

\* the manager has been constructed
Constructed == DOMAIN config # {}

InitConfig ==
    /\ NewAnalyzer(DefaultFactor, DefaultOutlierCount)
    /\ last_call = "init"
    /\ last_file = None
    /\ ret = None
    /\ read_ret = None
    /\ reads = 0
    /\ cycles = <<>>
    /\ cycle_results = <<>>
    /\ capacitances = <<>>
    /\ avg_capacitance = FracZero
    /\ cycle_data = <<>>
    /\ result = NoResult
    /\ exit_status = None
    /\ report = NoReport
    /\ NoFileLoaded
    /\ ModuleImported
    /\ disk \in [ConfigPaths -> ConfigContents]

\* ConfigManager(), lines 50-79: _load_config on config.json
Construct ==
    /\ ~Constructed
    /\ last_call' = "__init__"
    /\ ret' = None
    /\ IF disk["config.json"].kind = "absent"
       THEN /\ disk' = [disk EXCEPT !["config.json"] = Value(DEFAULT_CONFIG, heap)]
            /\ config' = DEFAULT_CONFIG
            /\ heap' = heap
       ELSE IF disk["config.json"].kind # "dict"
       THEN /\ config' = DEFAULT_CONFIG
            /\ UNCHANGED <<heap, disk>>
       ELSE \E merged \in {merge_config(Value(DEFAULT_CONFIG, heap), disk["config.json"])} :
            /\ config' = [key \in DOMAIN merged.items |-> "config.plot"]
            /\ heap' = WithObject(heap, merged.items.plot)
            /\ disk' = disk
    /\ UNCHANGED <<analyzer_vars, last_file, read_ret, reads, cycles, cycle_results,
                   capacitances, avg_capacitance, cycle_data, result, exit_status,
                   report, window_vars, DEFAULT_CONFIG>>

\* a variant of set_plot_config that updates the dict held under "plot"
\* instead of replacing it
SetPlotConfig_in_place(plot_config) ==
    /\ Constructed
    /\ last_call' = "set_plot_config"
    /\ ret' = None
    /\ config' = config
    /\ heap' = [heap EXCEPT ![config.plot] = plot_config]
    /\ disk' = [disk EXCEPT !["config.json"] = Value(config', heap')]
    /\ UNCHANGED <<analyzer_vars, last_file, read_ret, reads, cycles, cycle_results,
                   capacitances, avg_capacitance, cycle_data, result, exit_status,
                   report, window_vars, DEFAULT_CONFIG>>

\* set_plot_config(plot_config), lines 104-107, given a new dict
SetPlotConfig(plot_config) ==
    /\ Constructed
    /\ last_call' = "set_plot_config"
    /\ ret' = None
    /\ config' = [config EXCEPT !.plot = "config.plot"]
    /\ heap' = WithObject(heap, plot_config)
    /\ disk' = [disk EXCEPT !["config.json"] = Value(config', heap')]
    /\ UNCHANGED <<analyzer_vars, last_file, read_ret, reads, cycles, cycle_results,
                   capacitances, avg_capacitance, cycle_data, result, exit_status,
                   report, window_vars, DEFAULT_CONFIG>>

\* export_config(path), lines 131-149
ExportConfig(path) ==
    /\ Constructed
    /\ last_call' = "export_config"
    /\ ret' = "True"
    /\ disk' = [disk EXCEPT ![path] = Value(config, heap)]
    /\ UNCHANGED <<analyzer_vars, last_file, read_ret, reads, cycles, cycle_results,
                   capacitances, avg_capacitance, cycle_data, result, exit_status,
                   report, window_vars, DEFAULT_CONFIG, config, heap>>

\* import_config(path), lines 151-177
ImportConfig(path) ==
    /\ Constructed
    /\ last_call' = "import_config"
    /\ IF disk[path].kind # "dict"
       THEN /\ ret' = "False"
            /\ UNCHANGED <<config, heap, disk>>
       ELSE \E merged \in {merge_config(Value(DEFAULT_CONFIG, heap), disk[path])} :
            /\ ret' = "True"
            /\ config' = [key \in DOMAIN merged.items |-> "config.plot"]
            /\ heap' = WithObject(heap, merged.items.plot)
            /\ disk' = [disk EXCEPT !["config.json"] = Value(config', heap')]
    /\ UNCHANGED <<analyzer_vars, last_file, read_ret, reads, cycles, cycle_results,
                   capacitances, avg_capacitance, cycle_data, result, exit_status,
                   report, window_vars, DEFAULT_CONFIG>>

\* reset_config(), lines 184-188
ResetConfig ==
    /\ Constructed
    /\ last_call' = "reset_config"
    /\ ret' = "True"
    /\ config' = DEFAULT_CONFIG
    /\ heap' = DefaultObjects(heap)
    /\ disk' = [disk EXCEPT !["config.json"] = Value(config', heap')]
    /\ UNCHANGED <<analyzer_vars, last_file, read_ret, reads, cycles, cycle_results,
                   capacitances, avg_capacitance, cycle_data, result, exit_status,
                   report, window_vars, DEFAULT_CONFIG>>

NextConfig ==
    \/ Construct
    \/ \E plot_config \in DialogPlots : SetPlotConfig(plot_config)
    \/ \E path \in ConfigPaths : ExportConfig(path)
    \/ \E path \in ConfigPaths : ImportConfig(path)
    \/ ResetConfig

SpecConfig == InitConfig /\ [][NextConfig]_vars

\* ---------------------------------------------------------------------------
\* Claims about the configuration, under SpecConfig
\* ---------------------------------------------------------------------------

\* C30: DEFAULT_CONFIG holds the plot configuration written in the module
\* whatever operations the manager has performed, and once reset_config has
\* returned get_plot_config() is that configuration
C30_DefaultConfigIsNeverModified ==
    /\ DOMAIN DEFAULT_CONFIG = {"plot"}
    /\ heap[DEFAULT_CONFIG.plot] = DefaultPlot
    /\ last_call = "reset_config" => get_plot_config(config, heap) = DefaultPlot

\* reset_config has returned after another plot configuration was set and
\* exported to other.json
C30_Witness ==
    /\ last_call = "reset_config"
    /\ disk["other.json"].kind = "dict"
    /\ "plot" \in DOMAIN disk["other.json"].items
    /\ disk["other.json"].items.plot \in DialogPlots \ {DefaultPlot}
    /\ get_plot_config(config, heap) = DefaultPlot

==========================================================================
